---- MODULE Spec2Model ----
(***************************************************************************)
(* Model of src/main.py: BuscadorMercadoLibre, the fetch / parse / filter  *)
(* / dedup pipeline of the MercadoLibre apartment scraper, and its CLI     *)
(* entry point main().                                                     *)
(*                                                                         *)
(* Text is a sequence of one-character strings.  An Optional value is a    *)
(* sequence of length at most one: None is << >>, Some(v) is << v >>.      *)
(***************************************************************************)
EXTENDS Integers, Sequences, FiniteSets, TLC

VARIABLES
    entrada,                 \* argument of a helper applied on its own
    salida,                  \* what that helper returned
    args,                    \* argparse namespace of main()
    config_json,             \* the configuration file on disk
    config,                  \* self.* set by __init__ from the configuration
    archivo,                 \* the visited file: [existe, lineas]
    apartamentos_visitados,  \* self.apartamentos_visitados
    pc,                      \* position of the single thread of control
    corrida,                 \* which process run this is (1, 2)
    sitio,                   \* upstream: Libre, or a fixed page per request
    barrio_idx,              \* buscar: index of the current item of BARRIOS
    pagina,                  \* buscar_en_url: loop variable pagina
    url_pagina,              \* buscar_en_url: local url (line 310)
    intento,                 \* buscar_en_url: loop variable intento
    response,                \* buscar_en_url: local response (Optional)
    cont_idx,                \* _parsear_pagina_ml: containers consumed
    apartamentos,            \* _parsear_pagina_ml: local apartamentos
    resultados,              \* buscar_en_url: local resultados
    todos_resultados,        \* buscar: local todos_resultados
    buscados,                \* history: barrios a listing page was asked for
    cortados,                \* history: barrios the upstream answered 403/404
    lanzados,                \* history: barrios whose processing raised
    detalle_pedidos,         \* history: detail GETs of the last container
    aceptados,               \* history: candidates the filter accepted
    guardar_fallidos,        \* urls whose append raised (line 157-158 warning)
    stdout                   \* records written by main()

vars == << entrada, salida, args, config_json, config, archivo,
           apartamentos_visitados, pc, corrida, sitio, barrio_idx, pagina,
           url_pagina, intento, response, cont_idx,
           apartamentos, resultados, todos_resultados,
           buscados, cortados, lanzados, detalle_pedidos,
           aceptados, guardar_fallidos, stdout >>

\* ------------------------------------------------------------------ bounds
\* Longest text given to _extraer_precio on its own.
MaxLenPrecio == 5
\* config['max_paginas'] of the runs explored.
MaxPaginas == 2
\* Longest title given to the Criteria Filter on its own.
MaxLenTitulo == 3
\* Longest exclusion word configured for the Criteria Filter on its own.
MaxLenPalabra == 2
\* max_paginas of the runs that follow the pagination of a barrio to its end.
MaxPaginasLargo == 3

\* ----------------------------------------------------------- Python values
None == << >>
Some(v) == << v >>

\* A call's outcome: a returned value, or a raised exception.
Ret(v) == [err |-> FALSE, val |-> v]
Raise == [err |-> TRUE, val |-> None]

Digitos == {"0", "1", "2", "3", "4", "5", "6", "7", "8", "9"}
Espacios == {" "}

DigitVal(c) ==
    CASE c = "0" -> 0 [] c = "1" -> 1 [] c = "2" -> 2 [] c = "3" -> 3
      [] c = "4" -> 4 [] c = "5" -> 5 [] c = "6" -> 6 [] c = "7" -> 7
      [] c = "8" -> 8 [] c = "9" -> 9

DigitChar(n) ==
    CASE n = 0 -> "0" [] n = 1 -> "1" [] n = 2 -> "2" [] n = 3 -> "3"
      [] n = 4 -> "4" [] n = 5 -> "5" [] n = 6 -> "6" [] n = 7 -> "7"
      [] n = 8 -> "8" [] n = 9 -> "9"

\* str.lower() on the letters the model's texts use.
LowerChar(c) ==
    CASE c = "A" -> "a" [] c = "B" -> "b" [] c = "U" -> "u" [] c = "S" -> "s"
      [] OTHER -> c

Lower(s) == [i \in 1..Len(s) |-> LowerChar(s[i])]

\* `p in texto` for two str.
Contiene(p, texto) ==
    \E i \in 0..(Len(texto) - Len(p)) : SubSeq(texto, i + 1, i + Len(p)) = p

\* str.replace(c, "")
RECURSIVE Quitar(_, _)
Quitar(s, c) ==
    IF s = << >> THEN << >>
    ELSE IF Head(s) = c THEN Quitar(Tail(s), c)
    ELSE << Head(s) >> \o Quitar(Tail(s), c)

\* str.strip()
RECURSIVE LStrip(_)
LStrip(s) ==
    IF s # << >> /\ Head(s) \in Espacios THEN LStrip(Tail(s)) ELSE s

RECURSIVE RStrip(_)
RStrip(s) ==
    IF s # << >> /\ s[Len(s)] \in Espacios
    THEN RStrip(SubSeq(s, 1, Len(s) - 1)) ELSE s

Strip(s) == RStrip(LStrip(s))

\* str.split(sep)[0]
RECURSIVE SplitFirst(_, _)
SplitFirst(s, sep) ==
    IF s = << >> \/ Head(s) = sep THEN << >>
    ELSE << Head(s) >> \o SplitFirst(Tail(s), sep)

\* Value of a text of decimal digits.
RECURSIVE DigitsVal(_)
DigitsVal(s) ==
    IF s = << >> THEN 0
    ELSE 10 * DigitsVal(SubSeq(s, 1, Len(s) - 1)) + DigitVal(s[Len(s)])

\* int(str): surrounding whitespace is allowed, anything but digits raises
\* ValueError (signs and underscores are not in the model's texts).
PyInt(s) ==
    LET t == Strip(s) IN
    IF t # << >> /\ \A i \in 1..Len(t) : t[i] \in Digitos
    THEN Ret(DigitsVal(t)) ELSE Raise

\* The longest prefix of s[from..] made of characters of set cs
\* (a greedy character class in a regular expression).
RECURSIVE Run(_, _, _)
Run(s, from, cs) ==
    IF from <= Len(s) /\ s[from] \in cs
    THEN << s[from] >> \o Run(s, from + 1, cs) ELSE << >>

\* re.search of  <lit> \s* (<cs>+) : group(1) of the leftmost match, None
\* when there is no match.  After the literal the whitespace run and then the
\* class run are both taken whole: the character after either run cannot
\* extend it, so backtracking finds nothing more.
MatchAt(s, i, lit, cs) ==
    IF i + Len(lit) - 1 <= Len(s) /\ SubSeq(s, i, i + Len(lit) - 1) = lit
    THEN LET ws == Run(s, i + Len(lit), Espacios)
             g == Run(s, i + Len(lit) + Len(ws), cs)
         IN g
    ELSE << >>

Search(s, lit, cs) ==
    LET hits == {i \in 1..Len(s) : MatchAt(s, i, lit, cs) # << >>} IN
    IF hits = {} THEN None
    ELSE LET first == CHOOSE i \in hits : \A j \in hits : i <= j
         IN Some(MatchAt(s, first, lit, cs))

\* ------------------------------------------------------------ regex helpers
_RE_PRECIO_PESOS(texto) == Search(texto, << "$" >>, Digitos \cup {"."})
_RE_PRECIO_USD(texto) == Search(texto, << "U", "S", "$" >>, Digitos)
USD_A_UYU == 40

_extraer_precio(texto) ==
    IF texto = << >> THEN Ret(None)
    ELSE IF _RE_PRECIO_PESOS(texto) # None
    THEN LET n == PyInt(Quitar(_RE_PRECIO_PESOS(texto)[1], ".")) IN
         IF n.err THEN Raise ELSE Ret(Some(n.val))
    ELSE IF _RE_PRECIO_USD(texto) # None
    THEN LET n == PyInt(_RE_PRECIO_USD(texto)[1]) IN
         IF n.err THEN Raise ELSE Ret(Some(n.val * USD_A_UYU))
    ELSE Ret(None)

\* re.search of  (\d+) \s* <lit>  (case already folded by the caller):
\* group(1) of the leftmost match, None when there is no match.
DigitsBeforeAt(s, i, lit) ==
    LET g == Run(s, i, Digitos)
        ws == Run(s, i + Len(g), Espacios)
        j == i + Len(g) + Len(ws)
    IN IF g # << >> /\ j + Len(lit) - 1 <= Len(s)
          /\ SubSeq(s, j, j + Len(lit) - 1) = lit
       THEN g ELSE << >>

SearchDigitsBefore(s, lit) ==
    LET hits == {i \in 1..Len(s) : DigitsBeforeAt(s, i, lit) # << >>} IN
    IF hits = {} THEN None
    ELSE LET first == CHOOSE i \in hits : \A j \in hits : i <= j
         IN Some(DigitsBeforeAt(s, first, lit))

\* _RE_DORM is compiled with re.I and applied to lower-cased text.
_RE_DORM(texto) == SearchDigitsBefore(Lower(texto), << "d", "o", "r", "m" >>)

\* ------------------------------------------------------------ dict helpers
\* dict.get(k) and dict.get(k, default) on a record.
DictGet(d, k) == IF k \in DOMAIN d THEN d[k] ELSE None
DictGetDefault(d, k, default) == IF k \in DOMAIN d THEN d[k] ELSE default

\* Truth value of an Optional int: None and 0 are false.
Truthy(v) == v # None /\ v[1] # 0

\* ------------------------------------------------------ extractor helpers
\* _pick_first over the tags its selectors find, in order: vals[i] is None
\* when selector i finds no tag, else the tag's text or attribute; the first
\* value that is non-empty once stripped wins, "" when there is none.
RECURSIVE _pick_first(_)
_pick_first(vals) ==
    IF vals = << >> THEN << >>
    ELSE IF Head(vals) # None /\ Strip(Head(vals)[1]) # << >>
    THEN Strip(Head(vals)[1])
    ELSE _pick_first(Tail(vals))

\* str.split(sep)[-1]
RECURSIVE SplitLast(_, _)
SplitLast(s, sep) ==
    IF s = << >> \/ s[Len(s)] = sep THEN << >>
    ELSE SplitLast(SubSeq(s, 1, Len(s) - 1), sep) \o << s[Len(s)] >>

\* str.replace(a, b) for single characters
Reemplazar(s, a, b) == [i \in 1..Len(s) |-> IF s[i] = a THEN b ELSE s[i]]

_slug_from_url(url) ==
    Reemplazar(SplitFirst(SplitLast(url, "/"), "_"), "-", " ")

\* str(int): the decimal digits of n >= 0
RECURSIVE IntStr(_)
IntStr(n) ==
    IF n < 10 THEN << DigitChar(n) >>
    ELSE IntStr(n \div 10) \o << DigitChar(n % 10) >>

\* parse_miles: None is 0, otherwise int(str(valor).replace('.', ''))
parse_miles(valor) ==
    IF valor = None THEN Ret(0) ELSE PyInt(Quitar(valor[1], "."))

\* format_miles: f"{numero:,}".replace(',', '.')
RECURSIVE format_miles(_)
format_miles(numero) ==
    IF numero < 1000 THEN IntStr(numero)
    ELSE format_miles(numero \div 1000) \o << "." >>
         \o << DigitChar((numero % 1000) \div 100),
               DigitChar((numero % 100) \div 10),
               DigitChar(numero % 10) >>

\* ------------------------------------------------------------- enrichment
\* Whether _extraer_apartamento_ml calls the enricher, and the enricher goes
\* on to issue its GET, for this url.
PideDetalle(url) == config.obtener_gastos_comunes /\ url # << >>

\* _extraer_gastos_comunes_desde_pagina on the detail page `detalle`:
\* detalle.status_code is None when session.get raises; detalle.monto is
\* group(1) of _RE_GASTOS_COMUNES on the fee element or the page text, None
\* when neither matches.  Every exception is caught and yields None.
_extraer_gastos_comunes_desde_pagina(url, detalle) ==
    IF url = << >> \/ ~config.obtener_gastos_comunes THEN None
    ELSE IF detalle.status_code = None THEN None
    ELSE IF detalle.status_code[1] # 200 THEN None
    ELSE IF detalle.monto = None THEN None
    ELSE LET n == PyInt(Quitar(detalle.monto[1], ".")) IN
         IF n.err THEN None ELSE Some(n.val)

\* ------------------------------------------------------------- extraction
\* _extraer_apartamento_ml: Some(apt), or None when anything in it raises.
_extraer_apartamento_ml(cont, barrio) ==
    LET url == SplitFirst(_pick_first(cont.enlaces), "#")
        t == _pick_first(cont.titulos)
        titulo == IF t = << >> THEN _slug_from_url(url) ELSE t
        precio_alquiler ==
            IF cont.frac # None
            THEN cont.frac[1] \o (IF cont.cents # None
                                  THEN << "," >> \o cont.cents[1] ELSE << >>)
            ELSE _pick_first(cont.precios)
        dormitorios ==
            IF _RE_DORM(cont.texto) # None
            THEN Some(DigitsVal(_RE_DORM(cont.texto)[1])) ELSE None
        gastos_comunes ==
            IF PideDetalle(url)
            THEN _extraer_gastos_comunes_desde_pagina(url, cont.detalle)
            ELSE None
        alquiler == parse_miles(Some(precio_alquiler))
        precio_total_numerico ==
            alquiler.val + (IF gastos_comunes # None
                            THEN gastos_comunes[1] ELSE 0)
    IN IF alquiler.err THEN None
       ELSE Some([titulo |-> titulo,
                  precio_alquiler |-> precio_alquiler,
                  query_barrio |-> barrio,
                  precio_total_formatted |->
                      Some(format_miles(precio_total_numerico)),
                  dormitorios |-> dormitorios,
                  gastos_comunes |-> gastos_comunes,
                  url |-> url])

\* ------------------------------------------------------------- the filter
_tiene_palabras_excluidas(texto) ==
    \E p \in config.palabras_excluir : Contiene(p, Lower(texto))

_es_apartamento_nuevo_sin_set(url) == TRUE

_es_apartamento_nuevo(url) ==
    IF ~config.filtrar_duplicados THEN TRUE
    ELSE url \notin apartamentos_visitados

_cumple_criterios_ml(apt) ==
    IF _tiene_palabras_excluidas(apt.titulo) THEN FALSE
    ELSE IF Truthy(DictGet(apt, "precio_total"))
            /\ DictGet(apt, "precio_total")[1] > config.max_precio THEN FALSE
    ELSE IF config.dormitorios # 0 /\ Truthy(DictGet(apt, "dormitorios"))
            /\ DictGet(apt, "dormitorios")[1] # config.dormitorios THEN FALSE
    ELSE IF ~_es_apartamento_nuevo(DictGetDefault(apt, "url", << >>))
    THEN FALSE
    ELSE TRUE

\* All texts of at most n characters of set cs.
Texts(cs, n) == UNION {[1..k -> cs] : k \in 0..n}

\* ------------------------------------------------------------ idle pipeline
\* The pipeline's variables while a helper is applied on its own.
PipelineIdle ==
    /\ args = << >>
    /\ config_json = << >>
    /\ archivo = << >>
    /\ apartamentos_visitados = {}
    /\ corrida = 0
    /\ sitio = << >>
    /\ barrio_idx = 0
    /\ pagina = 0
    /\ url_pagina = << >>
    /\ intento = 0
    /\ response = None
    /\ cont_idx = 0
    /\ apartamentos = << >>
    /\ resultados = << >>
    /\ todos_resultados = << >>
    /\ buscados = {}
    /\ cortados = {}
    /\ lanzados = {}
    /\ detalle_pedidos = << >>
    /\ aceptados = << >>
    /\ guardar_fallidos = {}
    /\ stdout = << >>

pipeline_vars == << args, config_json, config, archivo,
                    apartamentos_visitados, corrida, sitio, barrio_idx,
                    pagina, url_pagina, intento, response, cont_idx,
                    apartamentos, resultados, todos_resultados,
                    buscados, cortados, lanzados, detalle_pedidos,
                    aceptados, guardar_fallidos, stdout >>

\* ------------------------------------------- _extraer_precio on its own
AlfabetoPrecio == {"U", "S", "$", " ", "1", "."}

InitPrecio ==
    /\ entrada \in Texts(AlfabetoPrecio, MaxLenPrecio)
    /\ salida = << >>
    /\ pc = "llamar"
    /\ config = << >>
    /\ PipelineIdle

LlamarExtraerPrecio ==
    /\ pc = "llamar"
    /\ salida' = _extraer_precio(entrada)
    /\ pc' = "retorno"
    /\ UNCHANGED << entrada, pipeline_vars >>

NextPrecio == LlamarExtraerPrecio

SpecPrecio == InitPrecio /\ [][NextPrecio]_vars

\* ------------------------------- extraction + Criteria Filter on their own
\* Texts written out once.
T_u1 == << "u", "1" >>
T_u2 == << "u", "2" >>
T_3000 == << "3", ".", "0", "0", "0" >>
T_5000 == << "5", ".", "0", "0", "0" >>
T_1000 == << "1", ".", "0", "0", "0" >>

\* A listing container as the selectors of _extraer_apartamento_ml see it:
\* enlaces  href of "a.ui-search-link", of "a"             (None: no tag)
\* titulos  text of the four title selectors              (None: no tag)
\* frac, cents  text of span.andes-money-amount__fraction / __cents
\* precios  text of the two fallback price selectors       (None: no tag)
\* texto    cont.get_text(" ", strip=True)
\* detalle  what a GET of the listing's own page answers
\* (ubicacion and area are copied into the record and read by nothing here.)
Contenedor(href, titulo, frac, texto, monto) ==
    [enlaces |-> << Some(href), None >>,
     titulos |-> << Some(titulo), None, None, None >>,
     frac |-> frac, cents |-> None,
     precios |-> << None, None >>,
     texto |-> texto,
     detalle |-> [status_code |-> Some(200), monto |-> monto]]

AlfabetoTitulo == {"a", "A", "b"}

TextosDorm ==
    { << >>,
      << "0", " ", "d", "o", "r", "m" >>,
      << "1", "d", "o", "r", "m" >>,
      << "2", " ", "D", "O", "R", "M" >> }

\* The configuration as __init__ holds it (the fields this model reads).
Config(palabras, precio, dorms, filtrar, paginas, gastos) ==
    [palabras_excluir |-> palabras,
     max_precio |-> precio,
     dormitorios |-> dorms,
     filtrar_duplicados |-> filtrar,
     max_paginas |-> paginas,
     obtener_gastos_comunes |-> gastos]

PrecioMaximo == 3500

InitFiltro ==
    /\ \E titulo \in Texts(AlfabetoTitulo, MaxLenTitulo),
          frac \in {None, Some(T_3000), Some(T_5000)},
          texto \in TextosDorm,
          monto \in {None, Some(T_1000)} :
          entrada = Contenedor(T_u1, titulo, frac, texto, monto)
    /\ \E palabra \in Texts(AlfabetoTitulo, MaxLenPalabra) \ {<< >>},
          dorms \in 0..2 :
          config = Config({palabra}, PrecioMaximo, dorms, TRUE, 1, TRUE)
    /\ salida = << >>
    /\ pc = "llamar"
    /\ PipelineIdle

\* apt = _extraer_apartamento_ml(cont, barrio);
\* apt and _cumple_criterios_ml(apt)
LlamarFiltro ==
    /\ pc = "llamar"
    /\ LET apt == _extraer_apartamento_ml(entrada, "pocitos") IN
       salida' = [apt |-> apt,
                  acepta |-> apt # None /\ _cumple_criterios_ml(apt[1])]
    /\ pc' = "retorno"
    /\ UNCHANGED << entrada, pipeline_vars >>

NextFiltro == LlamarFiltro

SpecFiltro == InitFiltro /\ [][NextFiltro]_vars

\* What the claims below call the candidate's computed total price.
PrecioTotal(apt) == parse_miles(apt.precio_total_formatted).val

\* C3: a candidate whose title contains a configured exclusion word as a
\* substring, letter case ignored on both sides, is rejected.
C3_PalabraExcluida ==
    (/\ pc = "retorno"
     /\ salida.apt # None
     /\ \E p \in config.palabras_excluir :
            Contiene(Lower(p), Lower(salida.apt[1].titulo)))
    => ~salida.acepta

\* C9: among candidates no other criterion rejects, the filter rejects exactly
\* those whose room count is known (0 included) and differs from a non-zero
\* configured target; an unknown room count is never rejected.
C9_Dormitorios ==
    LET otros_rechazan ==
            \/ salida.apt = None
            \/ \E p \in config.palabras_excluir :
                   Contiene(Lower(p), Lower(salida.apt[1].titulo))
            \/ PrecioTotal(salida.apt[1]) > config.max_precio
            \/ salida.apt[1].url \in apartamentos_visitados
    IN (pc = "retorno" /\ ~otros_rechazan)
       => (salida.acepta <=>
               ~(/\ config.dormitorios # 0
                 /\ salida.apt[1].dormitorios # None
                 /\ salida.apt[1].dormitorios[1] # config.dormitorios))

\* C10: _extraer_precio returns digits * 40 for a text holding US$<digits>,
\* the digits with the dots removed for a text holding $<digits and dots>,
\* and None for a text matching neither pattern.
C10_ExtraerPrecio ==
    pc = "retorno" =>
        IF _RE_PRECIO_USD(entrada) # None
        THEN salida = Ret(Some(DigitsVal(_RE_PRECIO_USD(entrada)[1]) * 40))
        ELSE IF _RE_PRECIO_PESOS(entrada) # None
        THEN (\E i \in 1..Len(_RE_PRECIO_PESOS(entrada)[1]) :
                 _RE_PRECIO_PESOS(entrada)[1][i] \in Digitos)
             => salida = Ret(Some(DigitsVal(
                    Quitar(_RE_PRECIO_PESOS(entrada)[1], "."))))
        ELSE salida = Ret(None)

\* ============================================================ the pipeline
\* config['barrios'].items(), in the order of the file.
BARRIOS ==
    << [key |-> "Pocitos", value |-> "pocitos"],
       [key |-> "Centro", value |-> "centro"] >>

T_ab == << "a", "b" >>
T_Ba == << "B", "a" >>
T_2dorm == << "2", " ", "d", "o", "r", "m" >>
PalabrasExcluir == {<< "b", "a" >>}

\* The containers the upstream pages are made of.
ContA == Contenedor(T_u1, T_ab, Some(T_3000), T_2dorm, Some(T_1000))
ContB == Contenedor(T_u2, T_ab, Some(T_3000), << >>, None)
ContExcluido == Contenedor(T_u2, T_Ba, Some(T_3000), T_2dorm, None)
ContSinEnlace ==
    [Contenedor(<< >>, T_ab, Some(T_3000), T_2dorm, None)
        EXCEPT !.enlaces = << None, None >>]
ContSinPrecio == Contenedor(T_u2, T_ab, None, T_2dorm, None)

Paginas ==
    { << >>,
      << ContA, ContExcluido >>,
      << ContSinEnlace, ContSinPrecio, ContB >> }

\* The visited file: whether it exists, and its lines without their "\n".
Archivo(existe, lineas) == [existe |-> existe, lineas |-> lineas]

\* An upstream answer to a listing-page GET; exc: a requests.RequestException.
Respuesta(exc, status, len, conts) ==
    [exc |-> exc, status_code |-> status, len_content |-> len,
     contenedores |-> conts]

MIN_BYTES == 1000
MAX_INTENTOS == 3

RespuestasLibres ==
    {Respuesta(TRUE, 0, 0, << >>)}
    \cup {Respuesta(FALSE, st, 0, << >>) : st \in {429, 403, 404, 500}}
    \cup {Respuesta(FALSE, 200, MIN_BYTES - 1, << >>)}
    \cup {Respuesta(FALSE, 200, MIN_BYTES, pg) : pg \in Paginas}

\* What the upstream may answer to attempt `intento` at page `pagina` of the
\* barrio: anything when the site is free, the site's page when it is fixed.
RespuestasPosibles ==
    IF sitio.fijo THEN {sitio.paginas[<< barrio_idx, pagina >>]}
    ELSE RespuestasLibres

\* ---------------------------------------------------------- visited store
_cargar_apartamentos_visitados(cfg) ==
    IF ~cfg.filtrar_duplicados THEN {}
    ELSE IF archivo.existe
    THEN {Strip(archivo.lineas[i]) : i \in 1..Len(archivo.lineas)} \ {<< >>}
    ELSE {}

BarrioActual == BARRIOS[barrio_idx].value

\* buscar_en_barrio, lines 284-293: URL_TEMPLATE.format(...) for the barrio.
\* The formatted template is one piece of text the program never looks into.
url_base(barrio) == << barrio >>

PASO_OFFSET == 50
T_Desde == << "_", "D", "e", "s", "d", "e", "_" >>

UrlPagina_por_pagina(base, pag) ==
    IF pag = 1 THEN base ELSE base \o T_Desde \o IntStr(pag * PASO_OFFSET)

\* Line 310: url_base if pagina == 1 else f"{url_base}_Desde_{(pagina-1)*50}"
UrlPagina(base, pag) ==
    IF pag = 1 THEN base
    ELSE base \o T_Desde \o IntStr((pag - 1) * PASO_OFFSET)

\* The locals of buscar_en_url / _parsear_pagina_ml when a call starts.
EntrarBarrio(idx) ==
    /\ barrio_idx' = idx
    /\ pagina' = 1
    /\ url_pagina' = UrlPagina(url_base(BARRIOS[idx].value), 1)
    /\ intento' = 0
    /\ response' = None
    /\ cont_idx' = 0
    /\ apartamentos' = << >>
    /\ resultados' = << >>
    /\ pc' = "pedir"

\* ... and when the call has returned.
SalirBarrio ==
    /\ pagina' = 0
    /\ url_pagina' = << >>
    /\ intento' = 0
    /\ response' = None
    /\ cont_idx' = 0
    /\ apartamentos' = << >>
    /\ resultados' = << >>

\* ------------------------------------------------------------------ main
\* main(), lines 542-551: BuscadorMercadoLibre(...) -> __init__.  The
\* obtener_gastos_comunes argument of __init__ is not read: line 55 takes the
\* flag from the configuration.
Construir ==
    /\ pc = "main"
    /\ config' = config_json
    /\ apartamentos_visitados' = _cargar_apartamentos_visitados(config_json)
    /\ pc' = "construido"
    /\ UNCHANGED << entrada, salida, args, config_json, archivo, corrida,
                    sitio, barrio_idx, pagina, url_pagina, intento, response,
                    cont_idx,
                    apartamentos, resultados, todos_resultados,
                    buscados, cortados, lanzados, detalle_pedidos,
                    aceptados, guardar_fallidos, stdout >>

\* main(), lines 553-564: --limpiar-historial removes the file and returns;
\* an exception of os.remove is caught and leaves the file as it was.
LimpiarHistorial ==
    /\ pc = "construido"
    /\ args.limpiar_historial
    /\ \E falla \in (IF archivo.existe /\ sitio.disco_falla
                     THEN BOOLEAN ELSE {FALSE}) :
          archivo' = IF archivo.existe /\ ~falla
                     THEN Archivo(FALSE, << >>) ELSE archivo
    /\ pc' = "fin"
    /\ UNCHANGED << entrada, salida, args, config_json, config,
                    apartamentos_visitados, corrida, sitio, barrio_idx,
                    pagina, url_pagina, intento, response, cont_idx,
                    apartamentos,
                    resultados, todos_resultados, buscados, cortados,
                    lanzados, detalle_pedidos,
                    aceptados, guardar_fallidos, stdout >>

\* main(), lines 566-569: --sin-filtro-duplicados.
DeshabilitarFiltro ==
    /\ pc = "construido"
    /\ ~args.limpiar_historial
    /\ args.sin_filtro_duplicados
    /\ config' = [config EXCEPT !.filtrar_duplicados = FALSE]
    /\ apartamentos_visitados' = {}
    /\ pc' = "buscar"
    /\ UNCHANGED << entrada, salida, args, config_json, archivo, corrida,
                    sitio, barrio_idx, pagina, url_pagina, intento, response,
                    cont_idx,
                    apartamentos, resultados, todos_resultados,
                    buscados, cortados, lanzados, detalle_pedidos,
                    aceptados, guardar_fallidos, stdout >>

\* Index in BARRIOS of a key, 0 when it is not one.
IndiceBarrio(k) ==
    IF \E i \in 1..Len(BARRIOS) : BARRIOS[i].key = k
    THEN CHOOSE i \in 1..Len(BARRIOS) : BARRIOS[i].key = k ELSE 0

\* main(), lines 571-576: buscar_barrio_especifico(args.barrio) or buscar(),
\* up to the first call of buscar_en_url.
IniciarBusqueda ==
    /\ \/ pc = "buscar"
       \/ /\ pc = "construido"
          /\ ~args.limpiar_historial
          /\ ~args.sin_filtro_duplicados
    /\ IF args.barrio # None /\ IndiceBarrio(args.barrio[1]) = 0
       THEN /\ pc' = "salida"
            /\ todos_resultados' = << >>
            /\ UNCHANGED << barrio_idx, pagina, url_pagina, intento,
                            response, cont_idx,
                            apartamentos, resultados >>
       ELSE /\ EntrarBarrio(IF args.barrio # None
                            THEN IndiceBarrio(args.barrio[1]) ELSE 1)
            /\ todos_resultados' = << >>
    /\ UNCHANGED << entrada, salida, args, config_json, config, archivo,
                    apartamentos_visitados, corrida, sitio,
                    buscados, cortados, lanzados, detalle_pedidos,
                    aceptados, guardar_fallidos, stdout >>

\* --------------------------------------------------------- buscar_en_url
\* Line 323: the statuses that end the search of the barrio at once.
EsCorteDuro_solo403(status) == status = 403

EsCorteDuro(status) == status \in {403, 404}

RetornarReintentando ==
    /\ pc' = "pedir"
    /\ intento' = intento + 1
    /\ response' = None

RetornarAbortando ==
    /\ pc' = "salida"
    /\ intento' = 0
    /\ response' = None

\* buscar_en_url returns resultados: response and intento go out of scope
\* (pagina is kept until buscar has taken the result, to tell the page at
\* which the call ended).
Retornar ==
    /\ pc' = "fin_barrio"
    /\ intento' = 0
    /\ response' = None

\* One iteration of the retry loop (lines 315-331) and, when it is the last
\* one for this page, the checks that follow the loop (lines 333-339).
Pedir ==
    /\ pc = "pedir"
    /\ \E r \in RespuestasPosibles :
          LET corte == ~r.exc /\ EsCorteDuro(r.status_code)
              ok == ~r.exc /\ r.status_code = 200
          IN
          /\ buscados' = buscados \cup {BarrioActual}
          /\ cortados' = IF ~r.exc /\ r.status_code \in {403, 404}
                         THEN cortados \cup {BarrioActual} ELSE cortados
          /\ IF ok /\ r.len_content >= MIN_BYTES
             THEN \* break; the checks of lines 333-339 pass
                  /\ response' = Some([status_code |-> r.status_code,
                                       len_content |-> r.len_content,
                                       contenedores |-> r.contenedores])
                  /\ pc' = "parsear"
                  /\ UNCHANGED intento
             ELSE IF ok \/ corte \/ intento + 1 = MAX_INTENTOS
             THEN \* undersized body: break; 403/404: return resultados;
                  \* last attempt without a 200: break.  buscar_en_url returns
                  /\ Retornar
             ELSE \* 429, another status, RequestException: sleep, next attempt
                  /\ response' = IF r.exc THEN response
                                 ELSE Some([status_code |-> r.status_code,
                                            len_content |-> r.len_content,
                                            contenedores |-> r.contenedores])
                  /\ intento' = intento + 1
                  /\ pc' = "pedir"
    /\ UNCHANGED << entrada, salida, args, config_json, config, archivo,
                    apartamentos_visitados, corrida, sitio, barrio_idx,
                    pagina, url_pagina, cont_idx, apartamentos, resultados,
                    todos_resultados, lanzados, detalle_pedidos,
                    aceptados, guardar_fallidos, stdout >>

\* ----------------------------------------------------- _parsear_pagina_ml
_guardar_reescribiendo(url, falla) ==
    /\ archivo' = Archivo(TRUE, << url >>)
    /\ apartamentos_visitados' = {url}
    /\ UNCHANGED guardar_fallidos

_guardar_sin_registrar(url, falla) ==
    UNCHANGED << archivo, apartamentos_visitados, guardar_fallidos >>

_guardar_siempre(url, falla) ==
    IF falla
    THEN /\ guardar_fallidos' = guardar_fallidos \cup {url}
         /\ UNCHANGED << archivo, apartamentos_visitados >>
    ELSE /\ archivo' = Archivo(TRUE, Append(archivo.lineas, url))
         /\ apartamentos_visitados' = apartamentos_visitados \cup {url}
         /\ UNCHANGED guardar_fallidos

\* _guardar_apartamento_visitado(url): `falla` is open()/write() raising.
_guardar_apartamento_visitado(url, falla) ==
    IF ~config.filtrar_duplicados
    THEN UNCHANGED << archivo, apartamentos_visitados, guardar_fallidos >>
    ELSE IF falla
    THEN /\ guardar_fallidos' = guardar_fallidos \cup {url}
         /\ UNCHANGED << archivo, apartamentos_visitados >>
    ELSE /\ archivo' = Archivo(TRUE, Append(archivo.lineas, url))
         /\ apartamentos_visitados' = apartamentos_visitados \cup {url}
         /\ UNCHANGED guardar_fallidos

\* Whether the append of _guardar_apartamento_visitado may raise: never when
\* the disk is sound, and always once an append of this run has raised (a
\* failing disk or a lost permission stays so for the rest of the run).
FallasPosibles ==
    IF ~config.filtrar_duplicados \/ ~sitio.disco_falla THEN {FALSE}
    ELSE IF guardar_fallidos # {} THEN {TRUE}
    ELSE BOOLEAN

ProcesarContenedorAbortando ==
    /\ pc = "parsear"
    /\ cont_idx < Len(response[1].contenedores)
    /\ cont_idx' = Len(response[1].contenedores)
    /\ detalle_pedidos' = << >>
    /\ UNCHANGED << entrada, salida, args, config_json, config, archivo,
                    apartamentos_visitados, pc, corrida, sitio, barrio_idx,
                    pagina, url_pagina, intento, response, apartamentos,
                    resultados,
                    todos_resultados, buscados, cortados, lanzados,
                    aceptados, guardar_fallidos, stdout >>

GetsDetalle_reintentando(url, det) ==
    IF PideDetalle(url)
    THEN << det.status_code, det.status_code, det.status_code >>
    ELSE << >>

\* The GETs _extraer_gastos_comunes_desde_pagina issues for one container
\* (line 210, a single session.get outside any loop), by what each received:
\* Some(status), or None when session.get raised.
GetsDetalle(url, det) ==
    IF PideDetalle(url) THEN << det.status_code >> ELSE << >>

\* What the upstream may answer to the GET of a container's detail page: the
\* page itself or, where detail pages are free to fail, also an error status
\* or a failure of the request.
DetallesPosibles(cont) ==
    IF ~sitio.detalle_libre THEN {cont.detalle}
    ELSE {[cont.detalle EXCEPT !.status_code = st] :
              st \in {Some(200), Some(500), None}}

\* One iteration of the loop over the containers (lines 366-371).
ProcesarContenedor ==
    /\ pc = "parsear"
    /\ cont_idx < Len(response[1].contenedores)
    /\ \E det \in DetallesPosibles(response[1].contenedores[cont_idx + 1]) :
       LET cont == [response[1].contenedores[cont_idx + 1]
                       EXCEPT !.detalle = det]
           url == SplitFirst(_pick_first(cont.enlaces), "#")
           apt == _extraer_apartamento_ml(cont, BarrioActual)
       IN
       /\ detalle_pedidos' = GetsDetalle(url, det)
       /\ IF apt # None /\ _cumple_criterios_ml(apt[1])
          THEN /\ \E falla \in FallasPosibles :
                     _guardar_apartamento_visitado(
                         DictGetDefault(apt[1], "url", << >>), falla)
               /\ apartamentos' = Append(apartamentos, apt[1])
               /\ aceptados' = Append(aceptados,
                      [barrio |-> BarrioActual, pagina |-> pagina,
                       cont |-> cont_idx + 1, apt |-> apt[1]])
          ELSE UNCHANGED << archivo, apartamentos_visitados,
                            guardar_fallidos, apartamentos, aceptados >>
    /\ cont_idx' = cont_idx + 1
    /\ UNCHANGED << entrada, salida, args, config_json, config, pc, corrida,
                    sitio, barrio_idx, pagina, url_pagina, intento, response,
                    resultados,
                    todos_resultados, buscados, cortados, lanzados,
                    stdout >>

FinPaginaSiguiendo ==
    /\ pc = "parsear"
    /\ cont_idx = Len(response[1].contenedores)
    /\ resultados' = resultados \o apartamentos
    /\ IF pagina < config.max_paginas
       THEN /\ pagina' = pagina + 1
            /\ url_pagina' = UrlPagina(url_base(BarrioActual), pagina + 1)
            /\ intento' = 0
            /\ response' = None
            /\ pc' = "pedir"
       ELSE /\ Retornar
            /\ UNCHANGED << pagina, url_pagina >>
    /\ cont_idx' = 0
    /\ apartamentos' = << >>
    /\ detalle_pedidos' = << >>
    /\ UNCHANGED << entrada, salida, args, config_json, config, archivo,
                    apartamentos_visitados, corrida, sitio, barrio_idx,
                    todos_resultados, buscados, cortados, lanzados,
                    aceptados, guardar_fallidos, stdout >>

FinPaginaRepitiendo ==
    /\ pc = "parsear"
    /\ cont_idx = Len(response[1].contenedores)
    /\ resultados' = resultados \o apartamentos
    /\ IF apartamentos # << >>
       THEN /\ intento' = 0
            /\ response' = None
            /\ pc' = "pedir"
       ELSE Retornar
    /\ cont_idx' = 0
    /\ apartamentos' = << >>
    /\ detalle_pedidos' = << >>
    /\ UNCHANGED << entrada, salida, args, config_json, config, archivo,
                    apartamentos_visitados, corrida, sitio, barrio_idx,
                    pagina, url_pagina,
                    todos_resultados, buscados, cortados, lanzados,
                    aceptados, guardar_fallidos, stdout >>

\* Lines 342-349 once the page is parsed: extend, stop on an empty page, or
\* go on to the next page of range(1, max_paginas + 1).
FinPagina ==
    /\ pc = "parsear"
    /\ cont_idx = Len(response[1].contenedores)
    /\ resultados' = resultados \o apartamentos
    /\ IF apartamentos # << >> /\ pagina < config.max_paginas
       THEN /\ pagina' = pagina + 1
            /\ url_pagina' = UrlPagina(url_base(BarrioActual), pagina + 1)
            /\ intento' = 0
            /\ response' = None
            /\ pc' = "pedir"
       ELSE /\ Retornar
            /\ UNCHANGED << pagina, url_pagina >>
    /\ cont_idx' = 0
    /\ apartamentos' = << >>
    /\ detalle_pedidos' = << >>
    /\ UNCHANGED << entrada, salida, args, config_json, config, archivo,
                    apartamentos_visitados, corrida, sitio, barrio_idx,
                    todos_resultados, buscados, cortados, lanzados,
                    aceptados, guardar_fallidos, stdout >>

\* ---------------------------------------------------------------- buscar
FinBarrioAlFrente ==
    /\ pc = "fin_barrio"
    /\ IF args.barrio # None
       THEN /\ todos_resultados' = resultados
            /\ SalirBarrio
            /\ pc' = "salida"
            /\ UNCHANGED barrio_idx
       ELSE /\ todos_resultados' = resultados \o todos_resultados
            /\ IF barrio_idx < Len(BARRIOS)
               THEN EntrarBarrio(barrio_idx + 1)
               ELSE /\ SalirBarrio
                    /\ pc' = "salida"
                    /\ UNCHANGED barrio_idx
    /\ UNCHANGED << entrada, salida, args, config_json, config, archivo,
                    apartamentos_visitados, corrida, sitio,
                    buscados, cortados, lanzados, detalle_pedidos,
                    aceptados, guardar_fallidos, stdout >>

\* buscar_en_url has returned: buscar extends todos_resultados and goes on to
\* the next barrio (lines 496-497); buscar_barrio_especifico returns the list.
FinBarrio ==
    /\ pc = "fin_barrio"
    /\ IF args.barrio # None
       THEN /\ todos_resultados' = resultados
            /\ SalirBarrio
            /\ pc' = "salida"
            /\ UNCHANGED barrio_idx
       ELSE /\ todos_resultados' = todos_resultados \o resultados
            /\ IF barrio_idx < Len(BARRIOS)
               THEN EntrarBarrio(barrio_idx + 1)
               ELSE /\ SalirBarrio
                    /\ pc' = "salida"
                    /\ UNCHANGED barrio_idx
    /\ UNCHANGED << entrada, salida, args, config_json, config, archivo,
                    apartamentos_visitados, corrida, sitio,
                    buscados, cortados, lanzados, detalle_pedidos,
                    aceptados, guardar_fallidos, stdout >>

\* main(), lines 578-579: one JSON line per listing.
Salida ==
    /\ pc = "salida"
    /\ stdout' = todos_resultados
    /\ pc' = "fin"
    /\ UNCHANGED << entrada, salida, args, config_json, config, archivo,
                    apartamentos_visitados, corrida, sitio, barrio_idx,
                    pagina, url_pagina, intento, response, cont_idx,
                    apartamentos,
                    resultados, todos_resultados, buscados, cortados,
                    lanzados, detalle_pedidos, aceptados,
                    guardar_fallidos >>

\* An exception that is not a requests.RequestException leaves
\* buscar_en_url: raised by session.get (line 317) or by BeautifulSoup /
\* select (lines 358-361) before the first container.  The locals of
\* buscar_en_url are lost with its frame.  buscar catches it and goes on
\* with the next barrio (lines 504-506); buscar_barrio_especifico and main
\* do not catch it (lines 522, 573) and the process ends without output.
LanzarExcepcionAbortando ==
    /\ pc \in {"pedir", "parsear"}
    /\ lanzados' = lanzados \cup {BarrioActual}
    /\ SalirBarrio
    /\ pc' = "salida"
    /\ UNCHANGED << entrada, salida, args, config_json, config, archivo,
                    apartamentos_visitados, corrida, sitio, barrio_idx,
                    todos_resultados, buscados, cortados, detalle_pedidos,
                    aceptados, guardar_fallidos, stdout >>

LanzarExcepcion ==
    /\ \/ pc = "pedir"
       \/ pc = "parsear" /\ cont_idx = 0
    /\ lanzados' = lanzados \cup {BarrioActual}
    /\ buscados' = buscados \cup {BarrioActual}
    /\ IF args.barrio # None
       THEN /\ SalirBarrio
            /\ pc' = "fin"
            /\ UNCHANGED barrio_idx
       ELSE IF barrio_idx < Len(BARRIOS)
       THEN EntrarBarrio(barrio_idx + 1)
       ELSE /\ SalirBarrio
            /\ pc' = "salida"
            /\ UNCHANGED barrio_idx
    /\ UNCHANGED << entrada, salida, args, config_json, config, archivo,
                    apartamentos_visitados, corrida, sitio,
                    todos_resultados, cortados, detalle_pedidos,
                    aceptados, guardar_fallidos, stdout >>

\* ------------------------------------------------------- specification
Args(limpiar, sin_filtro, sin_gastos, barrio) ==
    [limpiar_historial |-> limpiar,
     sin_filtro_duplicados |-> sin_filtro,
     sin_gastos_comunes |-> sin_gastos,
     barrio |-> barrio]

\* The command lines explored: none, each toggle alone, --barrio with a
\* configured key and with an unknown one.
ArgsPosibles ==
    { Args(FALSE, FALSE, FALSE, None),
      Args(TRUE, FALSE, FALSE, None),
      Args(FALSE, TRUE, FALSE, None),
      Args(FALSE, FALSE, TRUE, None),
      Args(FALSE, FALSE, FALSE, Some("Centro")),
      Args(FALSE, FALSE, FALSE, Some("Otro")) }

ConfigsPosibles ==
    { Config(PalabrasExcluir, PrecioMaximo, 2, filtrar, MaxPaginas, gastos) :
        filtrar \in BOOLEAN, gastos \in BOOLEAN }

ArchivosIniciales == { Archivo(FALSE, << >>), Archivo(TRUE, << T_u1 >>) }

\* The process before main() runs.
ProcesoNuevo ==
    /\ entrada = << >>
    /\ salida = << >>
    /\ config = << >>
    /\ apartamentos_visitados = {}
    /\ pc = "main"
    /\ barrio_idx = 0
    /\ pagina = 0
    /\ url_pagina = << >>
    /\ intento = 0
    /\ response = None
    /\ cont_idx = 0
    /\ apartamentos = << >>
    /\ resultados = << >>
    /\ todos_resultados = << >>
    /\ buscados = {}
    /\ cortados = {}
    /\ lanzados = {}
    /\ detalle_pedidos = << >>
    /\ aceptados = << >>
    /\ guardar_fallidos = {}
    /\ stdout = << >>

Init ==
    /\ args \in ArgsPosibles
    /\ config_json \in ConfigsPosibles
    /\ archivo \in ArchivosIniciales
    /\ sitio = [fijo |-> FALSE, paginas |-> << >>, disco_falla |-> TRUE,
                detalle_libre |-> FALSE]
    /\ corrida = 1
    /\ ProcesoNuevo

Next ==
    \/ Construir
    \/ LimpiarHistorial
    \/ DeshabilitarFiltro
    \/ IniciarBusqueda
    \/ Pedir
    \/ ProcesarContenedor
    \/ FinPagina
    \/ FinBarrio
    \/ LanzarExcepcion
    \/ Salida

Spec == Init /\ [][Next]_vars

\* ------------------------------------------------ runs of longer barrios
\* The search alone (no history-clear, no --sin-filtro-duplicados) with
\* max_paginas = MaxPaginasLargo against a free upstream.  The program is a
\* single thread whose every blocking call is bounded (timeout=30 and
\* timeout=15 of session.get, finite sleeps), so a step that can be taken
\* is taken.
InitPaginas ==
    /\ args \in { Args(FALSE, FALSE, FALSE, None),
                  Args(FALSE, FALSE, FALSE, Some("Centro")) }
    /\ config_json \in
          { Config(PalabrasExcluir, PrecioMaximo, 2, filtrar,
                   MaxPaginasLargo, FALSE) : filtrar \in BOOLEAN }
    /\ archivo = Archivo(FALSE, << >>)
    /\ sitio = [fijo |-> FALSE, paginas |-> << >>, disco_falla |-> FALSE,
                detalle_libre |-> FALSE]
    /\ corrida = 1
    /\ ProcesoNuevo

NextPaginas ==
    \/ Construir
    \/ IniciarBusqueda
    \/ Pedir
    \/ ProcesarContenedor
    \/ FinPagina
    \/ FinBarrio
    \/ LanzarExcepcion
    \/ Salida

\* The for loop of _parsear_pagina_ml is at a container still to be processed:
\* the condition under which ProcesarContenedor can take its step.
ContenedorPendiente ==
    /\ pc = "parsear"
    /\ cont_idx < Len(response[1].contenedores)

\* The interpreter runs the single thread of main statement after statement:
\* a step that can be taken is taken.  Raising an exception is never
\* required.  The weak fairness of ProcesarContenedor is written out by its
\* definition, with its enabling condition as the state predicate above.
JustoPaginas ==
    /\ WF_vars(Construir)
    /\ WF_vars(IniciarBusqueda)
    /\ WF_vars(Pedir)
    /\ WF_vars(FinPagina)
    /\ WF_vars(FinBarrio)
    /\ WF_vars(Salida)
    /\ ([]<>(~ContenedorPendiente) \/ []<><<ProcesarContenedor>>_vars)

SpecPaginas == InitPaginas /\ [][NextPaginas]_vars /\ JustoPaginas

\* ----------------------------------------- runs with failing detail pages
\* The same program against an upstream whose detail pages may answer an
\* error status or fail, with fee enrichment on and a sound disk.
InitDetalle ==
    /\ args \in ArgsPosibles
    /\ config_json \in
          { Config(PalabrasExcluir, PrecioMaximo, 2, filtrar, MaxPaginas,
                   TRUE) : filtrar \in BOOLEAN }
    /\ archivo = Archivo(FALSE, << >>)
    /\ sitio = [fijo |-> FALSE, paginas |-> << >>, disco_falla |-> FALSE,
                detalle_libre |-> TRUE]
    /\ corrida = 1
    /\ ProcesoNuevo

SpecDetalle == InitDetalle /\ [][Next]_vars

\* --------------------------------------------------- two runs, fixed site
\* The same command is run again: a new process, the file as the first run
\* left it, the upstream answering each request as before.
NuevaCorrida ==
    /\ pc = "fin"
    /\ corrida = 1
    /\ corrida' = 2
    /\ pc' = "main"
    /\ entrada' = << >>
    /\ salida' = << >>
    /\ config' = << >>
    /\ apartamentos_visitados' = {}
    /\ barrio_idx' = 0
    /\ pagina' = 0
    /\ url_pagina' = << >>
    /\ intento' = 0
    /\ response' = None
    /\ cont_idx' = 0
    /\ apartamentos' = << >>
    /\ resultados' = << >>
    /\ todos_resultados' = << >>
    /\ buscados' = {}
    /\ cortados' = {}
    /\ lanzados' = {}
    /\ detalle_pedidos' = << >>
    /\ aceptados' = << >>
    /\ guardar_fallidos' = {}
    /\ stdout' = << >>
    /\ UNCHANGED << args, config_json, archivo, sitio >>

\* What a fixed site answers to the GET of one listing page.
RespuestasFijas ==
    {Respuesta(FALSE, 403, 0, << >>)}
    \cup {Respuesta(FALSE, 200, MIN_BYTES, pg) : pg \in Paginas}

SitiosFijos == [(1..Len(BARRIOS)) \X (1..MaxPaginas) -> RespuestasFijas]

InitDos ==
    /\ args \in { Args(FALSE, FALSE, FALSE, None),
                  Args(FALSE, FALSE, FALSE, Some("Centro")) }
    /\ config_json \in
          { Config(PalabrasExcluir, PrecioMaximo, 2, TRUE, MaxPaginas, gastos) :
              gastos \in BOOLEAN }
    /\ archivo \in ArchivosIniciales
    /\ \E f \in SitiosFijos :
          sitio = [fijo |-> TRUE, paginas |-> f, disco_falla |-> FALSE,
                   detalle_libre |-> FALSE]
    /\ corrida = 1
    /\ ProcesoNuevo

NextDos ==
    \/ Construir
    \/ IniciarBusqueda
    \/ Pedir
    \/ ProcesarContenedor
    \/ FinPagina
    \/ FinBarrio
    \/ Salida
    \/ NuevaCorrida

SpecDos == InitDos /\ [][NextDos]_vars

\* =============================================================== claims
\* The containers of the upstream pages, and what a sequence of records maps
\* to under one field.
ContenedoresModelo == UNION {{pg[i] : i \in 1..Len(pg)} : pg \in Paginas}
BarriosModelo == {BARRIOS[i].value : i \in 1..Len(BARRIOS)}
Urls(seq) == {seq[i].url : i \in 1..Len(seq)}
Lineas == {archivo.lineas[i] : i \in 1..Len(archivo.lineas)}
Construido == pc # "main"

\* The criteria of the filter other than dedup, as the code applies them.
OtrosCriteriosPasan(apt) ==
    /\ ~_tiene_palabras_excluidas(apt.titulo)
    /\ ~(/\ config.dormitorios # 0
         /\ Truthy(apt.dormitorios)
         /\ apt.dormitorios[1] # config.dormitorios)

\* C1: with dedup enabled the filter rejects every candidate whose url is in
\* the Visited Set; with dedup disabled a candidate the other criteria pass
\* is accepted, whether or not its url is in the set or in the file.
C1_Dedup ==
    Construido =>
        \A c \in ContenedoresModelo, b \in BarriosModelo :
            LET apt == _extraer_apartamento_ml(c, b) IN
            apt # None =>
                /\ (config.filtrar_duplicados
                    /\ apt[1].url \in apartamentos_visitados)
                   => ~_cumple_criterios_ml(apt[1])
                /\ (~config.filtrar_duplicados /\ OtrosCriteriosPasan(apt[1]))
                   => _cumple_criterios_ml(apt[1])

\* C1 witness: with dedup enabled, the first container of a page has just
\* been rejected and only its url, already in the Visited Set, explains it.
C1_Witness ==
    /\ pc = "parsear"
    /\ cont_idx = 1
    /\ config.filtrar_duplicados
    /\ apartamentos = << >>
    /\ LET apt == _extraer_apartamento_ml(response[1].contenedores[1],
                                          BarrioActual)
       IN /\ apt # None
          /\ OtrosCriteriosPasan(apt[1])
          /\ apt[1].url \in apartamentos_visitados

\* C2: a second run against the file left by a first run with dedup enabled,
\* and the same upstream answers, accepts no listing.
C2_Idempotencia ==
    (corrida = 2 /\ Construido /\ config.filtrar_duplicados)
    => aceptados = << >>

\* C4: the filter accepts no candidate whose computed total price (rent plus
\* maintenance fee) exceeds the ceiling, and no such listing is emitted.
C4_PrecioMaximo ==
    /\ \A i \in 1..Len(aceptados) :
          PrecioTotal(aceptados[i].apt) <= config.max_precio
    /\ \A i \in 1..Len(stdout) :
          PrecioTotal(stdout[i]) <= config.max_precio

\* The listings accepted so far at pages before page n of barrio b.
AceptadosDe(b, n) ==
    LET sel == SelectSeq(aceptados, LAMBDA a : a.barrio = b /\ a.pagina < n)
    IN [i \in 1..Len(sel) |-> sel[i].apt]

TodosAceptados == [i \in 1..Len(aceptados) |-> aceptados[i].apt]

\* The listings accepted in the barrios whose processing did not raise.
AceptadosSinLanzados ==
    LET sel == SelectSeq(aceptados, LAMBDA a : a.barrio \notin lanzados)
    IN [i \in 1..Len(sel) |-> sel[i].apt]

\* C5: once a listing-page request of a barrio is answered 403 or 404, no
\* further listing page of that barrio is requested or parsed, and the
\* barrio's result is exactly what pages 1..N-1 had accepted.
C5_CorteDuro ==
    /\ pc \in {"pedir", "parsear"} => BarrioActual \notin cortados
    /\ (pc = "fin_barrio" /\ BarrioActual \in cortados)
       => resultados = AceptadosDe(BarrioActual, pagina)

\* C5 witness: page 2 was answered 403/404 and the barrio returns the
\* listings of page 1.
C5_Witness ==
    /\ pc = "fin_barrio"
    /\ BarrioActual \in cortados
    /\ pagina = 2
    /\ resultados # << >>
    /\ resultados = AceptadosDe(BarrioActual, 2)

\* C6: whatever ends the search of a barrio (403/404, a body under 1000
\* bytes, three attempts without a 200), the barrio returns every listing it
\* had accepted, and buscar still asks for every barrio of the configuration
\* and returns all that was accepted.
C6_SoloEseBarrio ==
    /\ pc = "fin_barrio"
       => resultados = AceptadosDe(BarrioActual, config.max_paginas + 1)
    /\ (pc \in {"salida", "fin"} /\ args.barrio = None
        /\ ~args.limpiar_historial)
       => (buscados = BarriosModelo
           /\ todos_resultados = AceptadosSinLanzados)

\* C6 witness: the first barrio was cut by a 403/404 after accepting a
\* listing, and the run ends with listings of both barrios.
C6_Witness ==
    /\ pc = "fin"
    /\ args.barrio = None
    /\ BARRIOS[1].value \in cortados
    /\ \E i \in 1..Len(stdout) : stdout[i].query_barrio = BARRIOS[1].value
    /\ \E i \in 1..Len(stdout) : stdout[i].query_barrio = BARRIOS[2].value

\* The step main() takes from here is the history-clear / the dedup switch.
EnLimpiarHistorial == pc = "construido" /\ args.limpiar_historial
EnDeshabilitarFiltro == pc = "construido" /\ args.sin_filtro_duplicados

\* C7 as stated: at every step other than the history-clear, the in-memory
\* set and the lines of the file are supersets of what they were.
C7_SoloCrece ==
    [][~EnLimpiarHistorial
       => (/\ apartamentos_visitados \subseteq apartamentos_visitados'
           /\ Lineas \subseteq Lineas')]_vars

\* C7 amended: at every step other than the history-clear the lines of the
\* file only grow; the in-memory set only grows at every step other than the
\* history-clear and the step of --sin-filtro-duplicados, which empties it.
C7_SoloCreceSalvoSinFiltro ==
    [][~EnLimpiarHistorial
       => (/\ Lineas \subseteq Lineas'
           /\ ~EnDeshabilitarFiltro
              => apartamentos_visitados \subseteq apartamentos_visitados')
      ]_vars

\* C7 witness: the file and the set have grown by an append.
C7_Witness ==
    /\ Len(archivo.lineas) >= 2
    /\ Cardinality(apartamentos_visitados) >= 2
    /\ aceptados # << >>

\* The urls of the listings held in any result sequence.
UrlsResultado ==
    Urls(apartamentos) \cup Urls(resultados) \cup Urls(todos_resultados)
    \cup Urls(stdout)

TextoPrecio(cont) ==
    IF cont.frac # None
    THEN cont.frac[1] \o (IF cont.cents # None
                          THEN << "," >> \o cont.cents[1] ELSE << >>)
    ELSE _pick_first(cont.precios)

\* C11: a container whose price text is absent or is not a number still
\* yields a candidate, which carries no rent price and no formatted total.
C11_SinPrecio ==
    (pc = "retorno" /\ parse_miles(Some(TextoPrecio(entrada))).err)
    => /\ salida.apt # None
       /\ salida.apt[1].precio_alquiler = << >>
       /\ salida.apt[1].precio_total_formatted = None

\* C12: a listing of a run started with --sin-gastos-comunes, and a listing
\* whose url is empty, has no detail page requested and a null fee.
C12_SinGastos ==
    \A i \in 1..Len(aceptados) :
        LET apt == aceptados[i].apt IN
        (args.sin_gastos_comunes \/ apt.url = << >>)
        => (~PideDetalle(apt.url) /\ apt.gastos_comunes = None)

\* Position in BARRIOS of the barrio whose value is v.
IndiceValor(v) == CHOOSE i \in 1..Len(BARRIOS) : BARRIOS[i].value = v

\* The listings accepted in the barrios buscar has finished with and whose
\* processing did not raise.
AgregadosEsperados ==
    LET sel == SelectSeq(aceptados,
                   LAMBDA a : /\ a.barrio \notin lanzados
                              /\ \/ pc \in {"salida", "fin"}
                                 \/ IndiceValor(a.barrio) < barrio_idx)
    IN [i \in 1..Len(sel) |-> sel[i].apt]

\* C13: in the all-barrios run an exception raised while a barrio is
\* processed does not end the run: what earlier barrios had aggregated stays
\* in todos_resultados, and at the end every barrio has been processed.
C13_ExcepcionAislada ==
    (/\ args.barrio = None
     /\ pc \in {"pedir", "parsear", "fin_barrio", "salida", "fin"}
     /\ ~args.limpiar_historial)
    => /\ todos_resultados = AgregadosEsperados
       /\ pc \in {"salida", "fin"} => buscados = BarriosModelo
       /\ lanzados \subseteq buscados

\* C13 witness: the first barrio returned a listing, the second raised, and
\* the run ended writing the first barrio's listing.
C13_Witness ==
    /\ pc = "fin"
    /\ args.barrio = None
    /\ lanzados = {BARRIOS[2].value}
    /\ stdout # << >>
    /\ \A i \in 1..Len(stdout) : stdout[i].query_barrio = BARRIOS[1].value

\* C14: when a run ends normally, every listing the filter accepted during
\* it is among the listings written out.
C14_TodosLosAceptados ==
    (pc = "fin" /\ ~(args.barrio # None /\ lanzados # {}))
    => \A i \in 1..Len(aceptados) :
           \E j \in 1..Len(stdout) : stdout[j] = aceptados[i].apt

\* ----------------------------------- _cargar_configuracion on its own
\* The sections _cargar_configuracion refuses to run without (lines 87-105).
SeccionesRequeridas == {"barrios", "palabras_excluir", "url_config",
                        "duplicados"}

\* _printv(..., _verbose=v): whether anything is printed.
_printv(_verbose) == _verbose

\* _cargar_configuracion on the file f: f.existe, f.json_valido, and
\* f.secciones, the required sections the file holds non-empty.  The result
\* is the exit status of sys.exit (None when the function returns) and
\* whether a message was printed on the way out.
_cargar_configuracion(f, verbose) ==
    IF ~f.existe
    THEN [exit |-> Some(1), impreso |-> _printv(verbose)]
    ELSE IF ~f.json_valido
    THEN [exit |-> Some(1), impreso |-> _printv(verbose)]
    ELSE IF f.secciones # SeccionesRequeridas
    THEN [exit |-> Some(1), impreso |-> _printv(verbose)]
    ELSE [exit |-> None, impreso |-> _printv(verbose)]

InitConfig ==
    /\ entrada \in [existe : BOOLEAN, json_valido : BOOLEAN,
                    secciones : SUBSET SeccionesRequeridas,
                    verbose : BOOLEAN]
    /\ salida = << >>
    /\ pc = "llamar"
    /\ config = << >>
    /\ PipelineIdle

\* __init__, line 49: config = self._cargar_configuracion(config_file)
CargarConfiguracion ==
    /\ pc = "llamar"
    /\ salida' = _cargar_configuracion(entrada, entrada.verbose)
    /\ pc' = "retorno"
    /\ UNCHANGED << entrada, pipeline_vars >>

NextConfig == CargarConfiguracion

SpecConfig == InitConfig /\ [][NextConfig]_vars

\* C15: a configuration file that is missing, is not JSON or lacks a
\* required section makes startup print a message and exit with a nonzero
\* status, no request having been issued, verbose or not.
C15_ConfigFatal ==
    (/\ pc = "retorno"
     /\ \/ ~entrada.existe
        \/ ~entrada.json_valido
        \/ entrada.secciones # SeccionesRequeridas)
    => /\ salida.exit # None
       /\ salida.exit[1] # 0
       /\ buscados = {}
       /\ salida.impreso

\* The container the loop of _parsear_pagina_ml is about to extract.
ContActual == response[1].contenedores[cont_idx + 1]

\* The loop of _parsear_pagina_ml is at a container and no exception leaves
\* the page in this step.
EnContenedor ==
    /\ pc = "parsear"
    /\ cont_idx < Len(response[1].contenedores)
    /\ lanzados' = lanzados

\* C16: a container whose extraction raises is skipped and nothing else:
\* the loop stays in the page and moves to the next container, what the page
\* had accepted stays accepted, and a container that extracts and passes the
\* filter is appended.
C16_SoloEseContenedor ==
    [][EnContenedor
       => LET apt == _extraer_apartamento_ml(ContActual, BarrioActual) IN
          /\ pc' = "parsear"
          /\ response' = response
          /\ cont_idx' = cont_idx + 1
          /\ resultados' = resultados
          /\ apartamentos' =
                 IF apt # None /\ _cumple_criterios_ml(apt[1])
                 THEN Append(apartamentos, apt[1]) ELSE apartamentos
      ]_vars

\* C16 witness: the second container of a page raised in extraction and the
\* third was extracted and accepted.
C16_Witness ==
    /\ pc = "parsear"
    /\ cont_idx = 3
    /\ _extraer_apartamento_ml(response[1].contenedores[2], BarrioActual)
       = None
    /\ apartamentos # << >>
    /\ apartamentos[Len(apartamentos)].url = T_u2

\* C17: one container costs at most one detail GET, and when that GET is
\* answered by a non-200 status or fails, the candidate is extracted with a
\* null fee, filtered like any other, and the loop goes on in the page.
C17_Enriquecimiento ==
    [][EnContenedor
       => /\ Len(detalle_pedidos') <= 1
          /\ (detalle_pedidos' # << >> /\ detalle_pedidos'[1] # Some(200))
             => LET cont == [ContActual EXCEPT
                                !.detalle.status_code = detalle_pedidos'[1]]
                    apt == _extraer_apartamento_ml(cont, BarrioActual)
                IN /\ apt # None => apt[1].gastos_comunes = None
                   /\ pc' = "parsear"
                   /\ cont_idx' = cont_idx + 1
                   /\ apartamentos' =
                          IF apt # None /\ _cumple_criterios_ml(apt[1])
                          THEN Append(apartamentos, apt[1])
                          ELSE apartamentos
      ]_vars

\* C17 witness: a run with enrichment on has ended writing the listing whose
\* detail page shows a fee, with a null fee, and a later listing after it.
C17_Witness ==
    /\ pc = "fin"
    /\ config.obtener_gastos_comunes
    /\ \E i \in 1..Len(stdout) :
           /\ stdout[i].url = T_u1
           /\ stdout[i].gastos_comunes = None
           /\ i < Len(stdout)

\* C18: a listing page is requested at most MAX_INTENTOS times; a further
\* attempt at the same page follows only a request that failed or was
\* answered by a status other than 200, 403 and 404; parsing follows only a
\* 200; otherwise the search of the barrio ends.
C18_Reintentos ==
    [][pc = "pedir"
       => /\ intento < MAX_INTENTOS
          /\ \/ pc' = "fin_barrio"
             \/ lanzados' # lanzados
             \/ /\ pc' = "parsear"
                /\ barrio_idx' = barrio_idx /\ pagina' = pagina
                /\ response'[1].status_code = 200
             \/ /\ pc' = "pedir"
                /\ barrio_idx' = barrio_idx /\ pagina' = pagina
                /\ intento' = intento + 1
                /\ intento' < MAX_INTENTOS
                /\ \/ response' = response
                   \/ /\ response' # None
                      /\ response'[1].status_code \notin {200, 403, 404}
      ]_vars

\* C18 witness: the third attempt at a page is about to be made after a 429.
C18_Witness ==
    /\ pc = "pedir"
    /\ intento = MAX_INTENTOS - 1
    /\ response # None
    /\ response[1].status_code = 429

\* C19: page N+1 of a barrio is requested only from a parsed page N that
\* was a 200 of at least MIN_BYTES and accepted a listing; a parsed page
\* that accepted nothing is followed by no request in the barrio.
C19_Paginacion ==
    [][/\ (barrio_idx' = barrio_idx /\ pagina >= 1 /\ pagina' # pagina
           /\ pc' = "pedir")
          => /\ pagina' = pagina + 1
             /\ pc = "parsear"
             /\ response[1].status_code = 200
             /\ response[1].len_content >= MIN_BYTES
             /\ cont_idx = Len(response[1].contenedores)
             /\ apartamentos # << >>
       /\ (/\ pc = "parsear"
           /\ cont_idx = Len(response[1].contenedores)
           /\ apartamentos = << >>)
          => (pc' = "pedir" => barrio_idx' # barrio_idx)
      ]_vars

\* C19 witness: page 2 of a barrio is being requested after page 1 accepted
\* a listing.
C19_Witness ==
    /\ pc = "pedir"
    /\ pagina = 2
    /\ AceptadosDe(BarrioActual, 2) # << >>

\* Emission order: barrio in the order of the configuration, then page, then
\* container in the page.
Antes(a, b) ==
    \/ IndiceValor(a.barrio) < IndiceValor(b.barrio)
    \/ /\ a.barrio = b.barrio
       /\ \/ a.pagina < b.pagina
          \/ a.pagina = b.pagina /\ a.cont < b.cont

\* C20: listings are accepted in barrio, page, container order, and what is
\* aggregated and written keeps that order.
C20_Orden ==
    /\ \A i, j \in 1..Len(aceptados) :
           i < j => Antes(aceptados[i], aceptados[j])
    /\ pc \in {"salida", "fin"} => todos_resultados = AceptadosSinLanzados
    /\ pc = "fin" => stdout = AceptadosSinLanzados

\* C20 witness: a run has written listings of two pages of the first barrio
\* and then one of the second.
C20_Witness ==
    /\ pc = "fin"
    /\ Len(stdout) >= 3
    /\ stdout[1].query_barrio = BARRIOS[1].value
    /\ stdout[Len(stdout)].query_barrio = BARRIOS[2].value
    /\ \E i \in 1..Len(aceptados) : aceptados[i].pagina = 2

\* Whether url is what the claim C21 says page p of a search with first
\* page `base` is requested at: base itself for page 1, base followed by
\* "_Desde_" and the decimal digits of (p - 1) * 50 for a later page.
UrlEsperada(url, base, p) ==
    IF p = 1 THEN url = base
    ELSE LET n == Len(base) + Len(T_Desde)
             cola == SubSeq(url, n + 1, Len(url))
         IN /\ Len(url) > n
            /\ SubSeq(url, 1, Len(base)) = base
            /\ SubSeq(url, Len(base) + 1, n) = T_Desde
            /\ PyInt(cola) = Ret((p - 1) * 50)
            /\ p = 3 => cola = << "1", "0", "0" >>

\* C21: the first request of a barrio is for page 1, the next request in
\* the barrio is for the same page or the one after it, and page p is
\* requested at the base url (p = 1) or at the base url followed by the
\* offset segment of (p - 1) * 50.
C21_Paginas ==
    [][pc' = "pedir"
       => /\ barrio_idx' # barrio_idx => pagina' = 1
          /\ barrio_idx' = barrio_idx => pagina' \in {pagina, pagina + 1}
          /\ UrlEsperada(url_pagina',
                         url_base(BARRIOS[barrio_idx'].value), pagina')
      ]_vars

\* C21 witness: page 3 of the first barrio is being requested at offset 100.
C21_Witness ==
    /\ pc = "pedir"
    /\ pagina = 3
    /\ url_pagina = << BARRIOS[1].value >> \o T_Desde \o << "1", "0", "0" >>

\* The listing-page requests the run may still issue: every later barrio in
\* full, the later pages of this barrio, the attempts left at this page.
Presupuesto ==
    LET P == config_json.max_paginas
        N == Len(BARRIOS)
    IN CASE pc \in {"main", "construido", "buscar"} -> N * P * MAX_INTENTOS
         [] pc = "pedir" ->
                ((N - barrio_idx) * P + (P - pagina)) * MAX_INTENTOS
                + (MAX_INTENTOS - intento)
         [] pc = "parsear" ->
                ((N - barrio_idx) * P + (P - pagina)) * MAX_INTENTOS
         [] pc = "fin_barrio" -> (N - barrio_idx) * P * MAX_INTENTOS
         [] OTHER -> 0

\* C22: the requests a run may still issue start at barrios x max_paginas x
\* 3, never grow, never go below zero and shrink with every listing-page
\* request; and every run reaches its end.
C22_Termina ==
    /\ [][/\ Presupuesto' <= Presupuesto
          /\ Presupuesto' >= 0
          /\ pc = "pedir" => Presupuesto' < Presupuesto]_vars
    /\ <>(pc = "fin")

\* C22 witness: a run over all barrios has ended after accepting a listing
\* at the last page a barrio may have.
C22_Witness ==
    /\ pc = "fin"
    /\ buscados = BarriosModelo
    /\ \E i \in 1..Len(aceptados) : aceptados[i].pagina = config.max_paginas

\* C23: with dedup enabled, no two listings of the sequence a run returns
\* have the same url, wherever the repeated url was listed (same page, two
\* pages of a barrio, two barrios) and also when an append to the visited
\* file raised.
C23_SinRepetidos ==
    (Construido /\ config.filtrar_duplicados) =>
        /\ \A i, j \in 1..Len(todos_resultados) :
              i < j => todos_resultados[i].url # todos_resultados[j].url
        /\ \A i, j \in 1..Len(stdout) :
              i < j => stdout[i].url # stdout[j].url

\* The run was started with dedup disabled, by the configuration or by
\* --sin-filtro-duplicados, and searches (--limpiar-historial, the command
\* that removes the file, returns before any search).
DedupDeshabilitado ==
    /\ ~args.limpiar_historial
    /\ ~config_json.filtrar_duplicados \/ args.sin_filtro_duplicados

\* C24: a run with dedup disabled leaves the visited file as it was at every
\* step, and while it searches the filter holds nothing of the file: dedup
\* is off and the Visited Set is empty, whatever listings are accepted.
C24_ArchivoIntacto ==
    [][DedupDeshabilitado =>
          /\ archivo' = archivo
          /\ pc' \in {"buscar", "pedir", "parsear", "fin_barrio", "salida"}
             => /\ ~config'.filtrar_duplicados
                /\ apartamentos_visitados' = {}]_vars

\* C24 witness: a run with dedup disabled has ended after emitting a listing
\* whose url is a line of the visited file, and the file is what it was.
C24_Witness ==
    /\ DedupDeshabilitado
    /\ pc = "fin"
    /\ archivo = Archivo(TRUE, << T_u1 >>)
    /\ \E i \in 1..Len(stdout) : stdout[i].url = T_u1

====
